---- MODULE Spec2Model ----
(***************************************************************************)
(* Model of the page-interaction utilities of dynamic-doc:                 *)
(*   - clickElement and the two navigation-settlement functions            *)
(*     handleHotmailNavigation / handleGmailNavigation (specification Spec *)
(*     and, with the scheduler's fairness, FairSpec);                      *)
(*   - typeText (specification SpecType) and clearInput (SpecClear);       *)
(*   - getElement, checkElement and selectOption on a model of the page    *)
(*     (SpecDom);                                                          *)
(*   - Helpers.randomNumber and the bounds of randomScroll and             *)
(*     scrollToElement (SpecPure);                                         *)
(*   - the in-page loop of randomScroll (SpecScroll);                      *)
(*   - two navigation sessions on one page (SpecTwo);                      *)
(*   - Helpers.generateUsername (SpecUser).                                *)
(* JavaScript runs one callback at a time: every action below is the code  *)
(* that runs between two awaits (or one timer / event callback).           *)
(***************************************************************************)
EXTENDS Integers, Sequences, FiniteSets, TLC

\* ------------------------------------------------------------------ bounds
\* Number of 'framenavigated' events the page fires in one run.
MaxEvents == 3
\* The same, in the runs checked for liveness.
MaxFairEvents == 2
\* Milliseconds between two observations of the clock.
Quantum == 2500

\* Frame identifiers (frame._id).
Frames == {"A", "B"}
Handlers == 1..MaxEvents

\* ------------------------------------------------------- program constants
\* handleHotmailNavigation
NAVIGATION_RECHECK_DELAY == 1000
NAVIGATION_WAIT_TIMEOUT == 10000
SETTLE_TIMEOUT == 10000
\* handleGmailNavigation
GMAIL_NAVIGATION_WAIT_TIMEOUT == 5000
RECHECK_INTERVAL == 1500
GMAIL_GRACE_DELAY == 1000
GMAIL_HANDLER_WAIT_TIMEOUT == 3000

Providers == {"generic", "hotmail", "gmail"}
\* The selector kinds getElement recognises, and one it does not.
SupportedTypes == {"id", "selector", "xpath", "class", "allSelector", "allXpath"}
Types == SupportedTypes \cup {"css"}
\* What the page answers to the query getElement issues.
Queries == {"match", "nomatch", "throws"}

VARIABLES
    \* ---- clickElement / navigation settlement
    isp,                  \* utilities.isp, the provider mode
    element,              \* what getElement gave clickElement ("none" before the call)
    pc,                   \* position of the clickElement call and its settlement function
    timeSinceLastNavigation, \* Hotmail session: Date.now() - lastNavigationTime
    navigationResolving,  \* session guard flag
    lastLoggedFrameID,    \* session: frame of the last 'Frame navigated' log, or "null"
    attached,             \* the session's listener is registered on the page
    handlers,             \* the invocations of navigationHandler
    handlerCalls,         \* number of invocations of navigationHandler so far
    directLeft,           \* time left until the direct post-click wait times out
    recheckLeft,          \* time left until the recheck timer fires
    navEvents,            \* 'framenavigated' events fired by the page so far
    eventBudget,          \* 'framenavigated' events the page fires in this run
    clicks,               \* element.click() calls dispatched
    frameLogs,            \* 'Frame navigated' messages logged
    completedLogs,        \* 'Navigation Completed.' messages logged
    errors,               \* calls of the shared error handler
    lastWait,             \* how the most recently ended waitForNavigation ended
    timeSinceLastEvent,   \* Hotmail: time since the last event the page delivered (or entry)
    \* ---- typeText
    tpc,                  \* position of the typeText call
    textArg,              \* the `text` argument as passed
    lines,                \* text.split("\n")
    li,                   \* index of the current line (for ... of lines)
    ci,                   \* index of the current character (for ... of line)
    focused,              \* document.activeElement === element
    acts,                 \* the actions issued on the element and the page, in order
    terrors,              \* calls of the shared error handler by the typeText call
    ttype,                \* the `type` argument of the call ("none" before it)
    telement,             \* what getElement gave the call ("none" before it)
    diags,                \* the diagnostics of the handleError calls, in order
    clickCount,           \* clearInput: the clickCount passed to element.click
    \* ---- getElement / checkElement / selectOption on a page
    page,                 \* the document: its elements in document order
    dcall,                \* the call made: function, kind, selector
    dout,                 \* what the call returned and did
    \* ---- randomNumber and the scroll bounds
    rnd,                  \* the value Math.random() returns, in units of 1/RandSteps
    pargs,                \* the numeric arguments of the call
    pfn,                  \* the function called ("none" before the call)
    pout,                 \* what it computed
    \* ---- the in-page loop of randomScroll
    spc,                  \* position of the randomScroll call
    scall,                \* its arguments as passed
    sinPage,              \* the arguments of the in-page function
    sleft,                \* endTime - Date.now(), 0 once the clock has reached endTime
    scrollY,              \* window.scrollY
    sstep,                \* the last step of the loop: scroll amount and delay
    \* ---- two navigation sessions on one page
    tisp,                 \* the provider mode of the process
    sess,                 \* each session's closure: its locals and its handler invocations
    listeners,            \* the sessions whose handler is a 'framenavigated' listener of the page
    twoEvents,            \* navigation events the page has fired
    \* ---- a call of Helpers.generateUsername
    uargs,                \* its arguments firstName and lastName
    uout                  \* what it returned

navVars == << isp, element, pc, timeSinceLastNavigation, navigationResolving,
           lastLoggedFrameID, attached, handlers, handlerCalls, directLeft,
           recheckLeft, navEvents, eventBudget, clicks, frameLogs, completedLogs,
           errors, lastWait, timeSinceLastEvent >>

typeVars == << tpc, textArg, lines, li, ci, focused, acts, terrors,
              ttype, telement, diags, clickCount >>

domVars == << page, dcall, dout >>

pureVars == << rnd, pargs, pfn, pout >>

scrollVars == << spc, scall, sinPage, sleft, scrollY, sstep >>

twoVars == << tisp, sess, listeners, twoEvents >>

userVars == << uargs, uout >>

vars == << navVars, typeVars, domVars, pureVars, scrollVars, twoVars, userVars >>

\* The variables outside the clickElement call, and outside the typeText call.
nonNavVars == << typeVars, domVars, pureVars, scrollVars, twoVars, userVars >>
nonTypeVars == << navVars, domVars, pureVars, scrollVars, twoVars, userVars >>
nonDomVars == << navVars, typeVars, pureVars, scrollVars, twoVars, userVars >>
nonPureVars == << navVars, typeVars, domVars, scrollVars, twoVars, userVars >>
nonScrollVars == << navVars, typeVars, domVars, pureVars, twoVars, userVars >>
nonTwoVars == << navVars, typeVars, domVars, pureVars, scrollVars, userVars >>
nonUserVars == << navVars, typeVars, domVars, pureVars, scrollVars, twoVars >>

\* An invocation of navigationHandler: where it is suspended, its frame, the
\* guard flag's value when its event arrived, the time left on its timer/timeout.
NoHandler == [pc |-> "none", frame |-> "null", held |-> FALSE, left |-> 0]

Min(a, b) == IF a < b THEN a ELSE b
Max(a, b) == IF a > b THEN a ELSE b

\* ------------------------------------------------------------- getElement
\* The diagnostics object handed to handleError as its fourth argument: the
\* names of its properties, and the values of `type` and of `text` (the
\* selector is the call's selector wherever it is passed).
NoText == [kind |-> "absent"]
Diag(type) == [keys |-> {"selector", "type"}, type |-> type, text |-> NoText]
TextDiag(type, text) ==
    [keys |-> {"selector", "type", "text"}, type |-> type, text |-> text]
OptionDiag(type) ==
    [keys |-> {"selector", "type", "optionValue"}, type |-> type, text |-> NoText]

\* domUtils.getElement: what it returns and the handleError calls it makes.
\*   "el"        an element handle
\*   "null"      nothing matched (page.$ / asElement() gave null)
\*   "array"     page.$$'s array, empty when nothing matched
\*   "handle"    the JSHandle of the 'allXpath' result list
\*   "undefined" the catch block ran (a throw inside the try)
getElement(type, q) ==
    IF type \notin SupportedTypes \/ q = "throws"
    THEN [element |-> "undefined", errs |-> 1, diags |-> << Diag(type) >>]
    ELSE IF type = "allSelector" THEN [element |-> "array", errs |-> 0, diags |-> << >>]
    ELSE IF type = "allXpath" THEN [element |-> "handle", errs |-> 0, diags |-> << >>]
    ELSE IF q = "match" THEN [element |-> "el", errs |-> 0, diags |-> << >>]
    ELSE [element |-> "null", errs |-> 0, diags |-> << >>]

\* `!element` of the callers.
Falsy(e) == e \in {"null", "undefined"}

\* The session before the call, on a page that will fire `budget` events.
NavStart(budget) ==
    /\ isp \in Providers
    /\ eventBudget = budget
    /\ element = "none"
    /\ pc = "idle"
    /\ timeSinceLastNavigation = 0
    /\ navigationResolving = FALSE
    /\ lastLoggedFrameID = "null"
    /\ attached = FALSE
    /\ handlers = [h \in Handlers |-> NoHandler]
    /\ handlerCalls = 0
    /\ directLeft = 0
    /\ recheckLeft = 0
    /\ navEvents = 0
    /\ clicks = 0
    /\ frameLogs = 0
    /\ completedLogs = 0
    /\ errors = 0
    /\ lastWait = "none"
    /\ timeSinceLastEvent = 0

\* No typeText call is made.
TypeOff ==
    /\ tpc = "off"
    /\ textArg = [kind |-> "undefined"]
    /\ lines = << >>
    /\ li = 0
    /\ ci = 0
    /\ focused = FALSE
    /\ acts = << >>
    /\ terrors = 0
    /\ ttype = "none"
    /\ telement = "none"
    /\ diags = << >>
    /\ clickCount = 0

\* No call on a page model is made.
NoCall == [fn |-> "none", type |-> "", selector |-> << >>]
NoOut == [ret |-> "none", node |-> 0, queries |-> 0, error |-> "none",
          diags |-> << >>, xnode |-> 0]
DomOff ==
    /\ page = << >>
    /\ dcall = NoCall
    /\ dout = NoOut

\* No numeric function is called.
PureOff ==
    /\ rnd = 0
    /\ pargs = << >>
    /\ pfn = "none"
    /\ pout = 0

\* randomScroll is not called.
NoStep == [amount |-> 0, delay |-> 0]
ScrollOff ==
    /\ spc = "off"
    /\ scall = << >>
    /\ sinPage = << >>
    /\ sleft = 0
    /\ scrollY = 0
    /\ sstep = NoStep

\* No second session: the one session is the navigation variables above.
TwoOff ==
    /\ tisp = "none"
    /\ sess = << >>
    /\ listeners = {}
    /\ twoEvents = 0

\* generateUsername is not called.
NoUsername == << "none" >>
UserOff ==
    /\ uargs = << >>
    /\ uout = NoUsername

Init == NavStart(MaxEvents) /\ TypeOff /\ DomOff /\ PureOff /\ ScrollOff /\ TwoOff /\ UserOff

\* ---------------------------------------------------- navigation session
InGuardedWait(h) == handlers[h].pc \in {"grace", "wait"}
\* page.waitForNavigation calls of the session that are pending.
WaitsInFlight ==
    Cardinality({h \in Handlers : handlers[h].pc = "wait"})
        + (IF pc = "directWait" THEN 1 ELSE 0)

\* The session's timeout of the direct post-click wait.
DirectWaitTimeout ==
    IF isp = "hotmail" THEN NAVIGATION_WAIT_TIMEOUT ELSE GMAIL_NAVIGATION_WAIT_TIMEOUT

\* handle*Navigation has no try: a throw inside it rejects its promise.
Reject == pc' = "rejected" /\ UNCHANGED errors

\* Mutant: the guard test always passes.
GuardHeld_Ignored == FALSE

\* `if (!navigationResolving)` of navigationHandler.
GuardHeld == navigationResolving

\* The guarded block of navigationHandler, entered by invocation h for `frame`
\* (held: the flag's value when the event arrived). Hotmail awaits
\* waitForNavigation at once, Gmail first awaits its 1000 ms timer.
GuardedBlock(h, frame, held) ==
    IF ~GuardHeld
    THEN /\ navigationResolving' = TRUE
         /\ handlers' = [handlers EXCEPT ![h] =
               IF isp = "hotmail"
               THEN [pc |-> "wait", frame |-> frame, held |-> held,
                     left |-> NAVIGATION_WAIT_TIMEOUT]
               ELSE [pc |-> "grace", frame |-> frame, held |-> held,
                     left |-> GMAIL_GRACE_DELAY]]
    ELSE /\ handlers' = [handlers EXCEPT ![h] = NoHandler]
         /\ UNCHANGED navigationResolving

\* Mutant: the timestamp is taken inside the guarded block only.
StampNavigation_InsideGuard ==
    IF isp = "hotmail" /\ ~navigationResolving
    THEN timeSinceLastNavigation' = 0
    ELSE UNCHANGED timeSinceLastNavigation

\* `lastNavigationTime = Date.now()`, the first statement of Hotmail's handler;
\* Gmail's handler keeps no timestamp.
StampNavigation ==
    IF isp = "hotmail"
    THEN timeSinceLastNavigation' = 0
    ELSE UNCHANGED timeSinceLastNavigation

\* navigationHandler(frame) up to its first await.
navigationHandler(frame) ==
    LET h == handlerCalls + 1 IN
    /\ handlerCalls' = h
    /\ StampNavigation
    /\ IF lastLoggedFrameID # frame
       THEN /\ handlers' = [handlers EXCEPT ![h] =
                 [pc |-> "log", frame |-> frame, held |-> navigationResolving,
                  left |-> 0]]
            /\ UNCHANGED navigationResolving
       ELSE GuardedBlock(h, frame, navigationResolving)

\* The page fires 'framenavigated' for `frame`: the listener runs if attached.
NavEvent(frame) ==
    /\ pc # "idle"
    /\ navEvents < eventBudget
    /\ navEvents' = navEvents + 1
    /\ IF attached
       THEN /\ navigationHandler(frame)
            /\ timeSinceLastEvent' = 0
       ELSE UNCHANGED << handlers, handlerCalls, timeSinceLastNavigation,
                         timeSinceLastEvent, navigationResolving >>
    /\ UNCHANGED << isp, eventBudget, element, pc, lastLoggedFrameID,
                    attached, directLeft, recheckLeft, clicks, frameLogs,
                    completedLogs, errors, lastWait >>
    /\ UNCHANGED nonNavVars

\* navigationHandler resumes after `await utilities.logMessage(...)`.
HandlerLogged(h) ==
    /\ handlers[h].pc = "log"
    /\ frameLogs' = frameLogs + 1
    /\ lastLoggedFrameID' = handlers[h].frame
    /\ GuardedBlock(h, handlers[h].frame, handlers[h].held)
    /\ UNCHANGED << isp, eventBudget, element, pc, timeSinceLastNavigation,
                    attached, handlerCalls, directLeft, recheckLeft,
                    navEvents, clicks, completedLogs, errors, lastWait,
                    timeSinceLastEvent >>
    /\ UNCHANGED nonNavVars

\* The handler's logMessage rejects: the invocation ends there, nothing awaits
\* its promise.
HandlerLogRejected(h) ==
    /\ handlers[h].pc = "log"
    /\ handlers' = [handlers EXCEPT ![h] = NoHandler]
    /\ UNCHANGED << isp, eventBudget, element, pc, timeSinceLastNavigation,
                    navigationResolving, lastLoggedFrameID, attached,
                    handlerCalls, directLeft, recheckLeft, navEvents, clicks,
                    frameLogs, completedLogs, errors, lastWait,
                    timeSinceLastEvent >>
    /\ UNCHANGED nonNavVars

\* Gmail: the 1000 ms timer of the guarded block fires, waitForNavigation starts.
HandlerGraceEnd(h) ==
    /\ handlers[h].pc = "grace"
    /\ handlers[h].left = 0
    /\ handlers' = [handlers EXCEPT ![h].pc = "wait",
                                    ![h].left = GMAIL_HANDLER_WAIT_TIMEOUT]
    /\ UNCHANGED << isp, eventBudget, element, pc, timeSinceLastNavigation,
                    navigationResolving, lastLoggedFrameID, attached,
                    handlerCalls, directLeft, recheckLeft, navEvents, clicks,
                    frameLogs, completedLogs, errors, lastWait,
                    timeSinceLastEvent >>
    /\ UNCHANGED nonNavVars

\* How a waitForNavigation with `left` ms to its timeout may end now: network
\* idle, a rejection of the page (detached frame, closed target), its timeout.
WaitOutcomes(left) ==
    {"idle", "error"} \cup (IF left = 0 THEN {"timeout"} ELSE {})

\* What `.catch(() => {})` makes of a wait's outcome.
Swallowed(outcome) == IF outcome = "idle" THEN "resolved" ELSE "swallowed"

\* Mutant: the flag is cleared after the await, without `finally`, and the
\* wait without its `.catch`: only a wait that resolves clears it.
ReleaseGuard_NoFinally(outcome) ==
    IF outcome = "idle"
    THEN navigationResolving' = FALSE
    ELSE UNCHANGED navigationResolving

\* `finally { navigationResolving = false; }` of the guarded block.
ReleaseGuard(outcome) == navigationResolving' = FALSE

\* The handler's waitForNavigation ends; `.catch(() => {})` and `finally`.
HandlerWaitEnd(h, outcome) ==
    /\ handlers[h].pc = "wait"
    /\ outcome \in WaitOutcomes(handlers[h].left)
    /\ lastWait' = Swallowed(outcome)
    /\ ReleaseGuard(outcome)
    /\ handlers' = [handlers EXCEPT ![h] = NoHandler]
    /\ UNCHANGED << isp, eventBudget, element, pc, timeSinceLastNavigation,
                    lastLoggedFrameID, attached, handlerCalls, directLeft,
                    recheckLeft, navEvents, clicks, frameLogs, completedLogs,
                    errors, timeSinceLastEvent >>
    /\ UNCHANGED nonNavVars

\* ------------------------------------------------ handle*Navigation bodies
\* Mutant: the click is dispatched without page.on before it.
EnterNavigation_NotArmed(el) ==
    /\ timeSinceLastNavigation' = 0
    /\ timeSinceLastEvent' = 0
    /\ navigationResolving' = FALSE
    /\ lastLoggedFrameID' = "null"
    /\ attached' = FALSE
    /\ IF el = "el"
       THEN pc' = "click" /\ clicks' = clicks + 1 /\ UNCHANGED errors
       ELSE pc' = "rejected" /\ UNCHANGED << clicks, errors >>

\* handleHotmailNavigation / handleGmailNavigation from entry to
\* `await element.click()`: session state, page.on, then the click. An `el`
\* that is no element handle has no click method: the call throws.
EnterNavigation(el) ==
    /\ timeSinceLastNavigation' = 0
    /\ timeSinceLastEvent' = 0
    /\ navigationResolving' = FALSE
    /\ lastLoggedFrameID' = "null"
    /\ attached' = TRUE
    /\ IF el = "el"
       THEN pc' = "click" /\ clicks' = clicks + 1 /\ UNCHANGED errors
       ELSE Reject /\ UNCHANGED clicks

\* clickElement({selector, type}): getElement, the not-found throw, the dispatch
\* on isp.
clickElement(type, q) ==
    LET r == getElement(type, q) IN
    /\ pc = "idle"
    /\ element' = r.element
    /\ IF Falsy(r.element)
       THEN /\ pc' = "failed"
            /\ errors' = errors + r.errs + 1
            /\ UNCHANGED << timeSinceLastNavigation, timeSinceLastEvent,
                            navigationResolving, lastLoggedFrameID, attached,
                            clicks >>
       ELSE IF isp \in {"hotmail", "gmail"}
       THEN EnterNavigation(r.element)
       ELSE /\ pc' = "returned"
            /\ UNCHANGED << timeSinceLastNavigation, timeSinceLastEvent,
                            navigationResolving, lastLoggedFrameID, attached,
                            clicks, errors >>
    /\ UNCHANGED << isp, eventBudget, handlers, handlerCalls, directLeft,
                    recheckLeft, navEvents, frameLogs, completedLogs,
                    lastWait >>
    /\ UNCHANGED nonNavVars

\* clickElement's catch block: a rejection of handle*Navigation goes to
\* handleError.
clickElementCatch ==
    /\ pc = "rejected"
    /\ pc' = "failed"
    /\ errors' = errors + 1
    /\ UNCHANGED << isp, eventBudget, element, timeSinceLastNavigation,
                    navigationResolving, lastLoggedFrameID, attached,
                    handlers, handlerCalls, directLeft, recheckLeft,
                    navEvents, clicks, frameLogs, completedLogs, lastWait,
                    timeSinceLastEvent >>
    /\ UNCHANGED nonNavVars

\* `await element.click()` resolves: the direct post-click wait is issued.
ClickResolved ==
    /\ pc = "click"
    /\ pc' = "directWait"
    /\ directLeft' = DirectWaitTimeout
    /\ UNCHANGED << isp, eventBudget, element, timeSinceLastNavigation,
                    navigationResolving, lastLoggedFrameID, attached,
                    handlers, handlerCalls, recheckLeft, navEvents, clicks,
                    frameLogs, completedLogs, errors, lastWait,
                    timeSinceLastEvent >>
    /\ UNCHANGED nonNavVars

\* `await element.click()` rejects: nothing in handle*Navigation catches it.
ClickRejected ==
    /\ pc = "click"
    /\ Reject
    /\ UNCHANGED << isp, eventBudget, element, timeSinceLastNavigation,
                    navigationResolving, lastLoggedFrameID, attached,
                    handlers, handlerCalls, directLeft, recheckLeft,
                    navEvents, clicks, frameLogs, completedLogs, lastWait,
                    timeSinceLastEvent >>
    /\ UNCHANGED nonNavVars

\* Mutant: the elapsed time is computed with its operands swapped.
Stable_Swapped ==
    /\ ~navigationResolving
    /\ (0 - timeSinceLastNavigation) > SETTLE_TIMEOUT

\* checkStability's condition (Hotmail).
Stable ==
    /\ ~navigationResolving
    /\ timeSinceLastNavigation > SETTLE_TIMEOUT

\* checkStability(): resolve, or setTimeout(checkStability, 1000).
checkStability ==
    IF Stable
    THEN pc' = "logDone" /\ recheckLeft' = 0
    ELSE pc' = "poll" /\ recheckLeft' = NAVIGATION_RECHECK_DELAY

\* Mutant: the callback resolves whatever the flag.
GmailSettled_Always == TRUE

\* The setInterval callback's condition (Gmail).
GmailSettled == ~navigationResolving

\* The setInterval callback: clearInterval and resolve, or wait for the next tick.
intervalTick ==
    IF GmailSettled
    THEN pc' = "logDone" /\ recheckLeft' = 0
    ELSE pc' = "poll" /\ recheckLeft' = RECHECK_INTERVAL

\* What follows the direct wait: Hotmail runs checkStability at once, Gmail
\* starts its interval timer.
AfterDirectWait ==
    IF isp = "hotmail"
    THEN checkStability
    ELSE pc' = "poll" /\ recheckLeft' = RECHECK_INTERVAL

\* Mutant: no `.catch(() => {})` on the direct wait.
AfterWait_NoCatch(outcome) ==
    IF outcome = "idle"
    THEN AfterDirectWait /\ UNCHANGED errors
    ELSE Reject /\ UNCHANGED recheckLeft

\* What a wait's outcome does to the awaiting function: `.catch(() => {})` lets
\* it go on whatever the outcome.
AfterWait(outcome) == AfterDirectWait /\ UNCHANGED errors

\* The direct post-click waitForNavigation ends.
DirectWaitEnd(outcome) ==
    /\ pc = "directWait"
    /\ outcome \in WaitOutcomes(directLeft)
    /\ lastWait' = Swallowed(outcome)
    /\ directLeft' = 0
    /\ AfterWait(outcome)
    /\ UNCHANGED << isp, eventBudget, element, timeSinceLastNavigation,
                    navigationResolving, lastLoggedFrameID, attached,
                    handlers, handlerCalls, navEvents, clicks, frameLogs,
                    completedLogs, timeSinceLastEvent >>
    /\ UNCHANGED nonNavVars

\* The recheck timer fires.
Recheck ==
    /\ pc = "poll"
    /\ recheckLeft = 0
    /\ IF isp = "hotmail" THEN checkStability ELSE intervalTick
    /\ UNCHANGED << isp, eventBudget, element, timeSinceLastNavigation,
                    navigationResolving, lastLoggedFrameID, attached,
                    handlers, handlerCalls, directLeft, navEvents, clicks,
                    frameLogs, completedLogs, errors, lastWait,
                    timeSinceLastEvent >>
    /\ UNCHANGED nonNavVars

\* Mutant: the listener is left on the page.
Detach_Omitted == UNCHANGED attached

\* `page.off('framenavigated', navigationHandler)`.
Detach == attached' = FALSE

\* `await utilities.logMessage('Navigation Completed.')` resolves, then page.off
\* and the return.
CompletionLogged ==
    /\ pc = "logDone"
    /\ completedLogs' = completedLogs + 1
    /\ Detach
    /\ pc' = "done"
    /\ UNCHANGED << isp, eventBudget, element, timeSinceLastNavigation,
                    navigationResolving, lastLoggedFrameID, handlers,
                    handlerCalls, directLeft, recheckLeft, navEvents, clicks,
                    frameLogs, errors, lastWait, timeSinceLastEvent >>
    /\ UNCHANGED nonNavVars

\* The completion logMessage rejects: page.off is never reached.
CompletionLogRejected ==
    /\ pc = "logDone"
    /\ Reject
    /\ UNCHANGED << isp, eventBudget, element, timeSinceLastNavigation,
                    navigationResolving, lastLoggedFrameID, attached,
                    handlers, handlerCalls, directLeft, recheckLeft,
                    navEvents, clicks, frameLogs, completedLogs, lastWait,
                    timeSinceLastEvent >>
    /\ UNCHANGED nonNavVars

\* ------------------------------------------------------------------- time
\* The call or one of its handler invocations is suspended at an await.
Suspended ==
    \/ pc \in {"click", "directWait", "poll", "logDone"}
    \/ \E h \in Handlers : handlers[h].pc # "none"

\* No pending timer or timeout is due: a due one fires before the clock is read
\* again.
NothingDue ==
    /\ (pc = "directWait") => directLeft > 0
    /\ (pc = "poll") => recheckLeft > 0
    /\ \A h \in Handlers : InGuardedWait(h) => handlers[h].left > 0

\* Elapsed times are kept up to the first value beyond the quiet window.
Elapsed(t) == Min(t + Quantum, SETTLE_TIMEOUT + Quantum)
Remaining(t) == Max(t - Quantum, 0)

\* Quantum milliseconds pass.
Tick ==
    /\ Suspended
    /\ NothingDue
    /\ timeSinceLastNavigation' =
          IF isp = "hotmail" THEN Elapsed(timeSinceLastNavigation) ELSE 0
    /\ timeSinceLastEvent' =
          IF isp = "hotmail" THEN Elapsed(timeSinceLastEvent) ELSE 0
    /\ directLeft' = IF pc = "directWait" THEN Remaining(directLeft) ELSE directLeft
    /\ recheckLeft' = IF pc = "poll" THEN Remaining(recheckLeft) ELSE recheckLeft
    /\ handlers' = [h \in Handlers |->
          IF InGuardedWait(h)
          THEN [handlers[h] EXCEPT !.left = Remaining(handlers[h].left)]
          ELSE handlers[h]]
    /\ UNCHANGED << isp, eventBudget, element, pc, navigationResolving,
                    lastLoggedFrameID, attached, handlerCalls, navEvents,
                    clicks, frameLogs, completedLogs, errors, lastWait >>
    /\ UNCHANGED nonNavVars

Next ==
    \/ \E type \in Types, q \in Queries : clickElement(type, q)
    \/ clickElementCatch
    \/ ClickResolved
    \/ ClickRejected
    \/ \E outcome \in {"idle", "timeout", "error"} : DirectWaitEnd(outcome)
    \/ Recheck
    \/ CompletionLogged
    \/ CompletionLogRejected
    \/ \E frame \in Frames : NavEvent(frame)
    \/ \E h \in Handlers : HandlerLogged(h)
    \/ \E h \in Handlers : HandlerLogRejected(h)
    \/ \E h \in Handlers : HandlerGraceEnd(h)
    \/ \E h \in Handlers, outcome \in {"idle", "timeout", "error"} : HandlerWaitEnd(h, outcome)
    \/ Tick

Spec == Init /\ [][Next]_vars

\* The steps the event loop takes by itself: settled awaits resume, due timers
\* fire. Only the page's navigation events are not the program's to take.
ProgramStep ==
    \/ \E type \in Types, q \in Queries : clickElement(type, q)
    \/ clickElementCatch
    \/ ClickResolved
    \/ ClickRejected
    \/ \E outcome \in {"idle", "timeout", "error"} : DirectWaitEnd(outcome)
    \/ Recheck
    \/ CompletionLogged
    \/ CompletionLogRejected
    \/ \E h \in Handlers : HandlerLogged(h)
    \/ \E h \in Handlers : HandlerLogRejected(h)
    \/ \E h \in Handlers : HandlerGraceEnd(h)
    \/ \E h \in Handlers, outcome \in {"idle", "timeout", "error"} : HandlerWaitEnd(h, outcome)

FairInit == NavStart(MaxFairEvents) /\ TypeOff /\ DomOff /\ PureOff /\ ScrollOff /\ TwoOff /\ UserOff

\* Every await settles, every due timer fires, and time passes.
FairSpec == FairInit /\ [][Next]_vars /\ WF_vars(ProgramStep) /\ WF_vars(Tick)

\* ================================================================ typeText
\* Longest text argument.
MaxLen == 3

\* The characters of the texts: two letters, a digit and the line break.
Chars == {"a", "b", "0", "\n"}
Strings == UNION {[1..n -> Chars] : n \in 0..MaxLen}
\* The values passed as `text`: strings, null, undefined, and the number 0.
TextArgs ==
    {[kind |-> "string", s |-> str] : str \in Strings}
        \cup {[kind |-> "null"], [kind |-> "undefined"], [kind |-> "number", s |-> <<"0">>]}

\* JavaScript truthiness of a text argument: '' and 0 are falsy.
Truthy(arg) ==
    /\ arg.kind \in {"string", "number"}
    /\ arg.s # << >>
    /\ ~(arg.kind = "number" /\ arg.s = <<"0">>)

\* Mutant: text.toString() without the truthiness test.
ToText_Unguarded(arg) == IF arg.kind \in {"string", "number"} THEN arg.s ELSE << >>

\* `text ? text.toString() : ""`.
ToText(arg) == IF Truthy(arg) THEN arg.s ELSE << >>

\* text.split("\n"): the segments between the line breaks, empty ones included.
RECURSIVE Split(_)
Split(str) ==
    IF \A k \in 1..Len(str) : str[k] # "\n"
    THEN << str >>
    ELSE LET k == CHOOSE j \in 1..Len(str) :
                     str[j] = "\n" /\ \A m \in 1..(j - 1) : str[m] # "\n"
         IN << SubSeq(str, 1, k - 1) >> \o Split(SubSeq(str, k + 1, Len(str)))

\* `line !== lines[lines.length - 1]`: a comparison of the strings.
NotLastLine(ls, k) == ls[k] # ls[Len(ls)]

Act(a, c) == [a |-> a, c |-> c]

TypeInit ==
    /\ tpc = "idle"
    /\ textArg \in TextArgs
    /\ lines = << >>
    /\ li = 0
    /\ ci = 0
    /\ focused = FALSE
    /\ acts = << >>
    /\ terrors = 0
    /\ ttype = "none"
    /\ telement = "none"
    /\ diags = << >>
    /\ clickCount = 0

\* No clickElement call is made.
NavOff ==
    /\ isp = "generic"
    /\ eventBudget = 0
    /\ element = "none"
    /\ pc = "off"
    /\ timeSinceLastNavigation = 0
    /\ navigationResolving = FALSE
    /\ lastLoggedFrameID = "null"
    /\ attached = FALSE
    /\ handlers = [h \in Handlers |-> NoHandler]
    /\ handlerCalls = 0
    /\ directLeft = 0
    /\ recheckLeft = 0
    /\ navEvents = 0
    /\ clicks = 0
    /\ frameLogs = 0
    /\ completedLogs = 0
    /\ errors = 0
    /\ lastWait = "none"
    /\ timeSinceLastEvent = 0

InitType == NavOff /\ TypeInit /\ DomOff /\ PureOff /\ ScrollOff /\ TwoOff /\ UserOff

\* The loops of typeText at line l, character c: ensureFocus before the next
\* character, Enter after a line that differs from the last one, the next line,
\* or the end.
RECURSIVE Loop(_, _, _)
Loop(ls, l, c) ==
    IF l > Len(ls)
    THEN /\ tpc' = "done"
         /\ li' = l /\ ci' = c
         /\ UNCHANGED acts
    ELSE IF c <= Len(ls[l])
    THEN /\ tpc' = "check"
         /\ li' = l /\ ci' = c
         /\ UNCHANGED acts
    ELSE IF NotLastLine(ls, l)
    THEN /\ tpc' = "press"
         /\ li' = l /\ ci' = c
         /\ acts' = Append(acts, Act("Enter", ""))
    ELSE Loop(ls, l + 1, 1)

\* Mutant: element.focus() is issued before the element is tested.
typeText_FocusFirst(type, q) ==
    LET r == getElement(type, q) IN
    /\ tpc = "idle"
    /\ ttype' = type
    /\ telement' = r.element
    /\ acts' = Append(acts, Act("focus", ""))
    /\ IF r.element # "el"
       THEN /\ tpc' = "failed"
            /\ terrors' = terrors + r.errs + 1
            /\ diags' = diags \o r.diags \o << TextDiag(type, textArg) >>
            /\ UNCHANGED focused
       ELSE /\ tpc' = "focus"
            /\ focused' = TRUE
            /\ UNCHANGED << terrors, diags >>
    /\ UNCHANGED << textArg, lines, li, ci, clickCount >>
    /\ UNCHANGED nonTypeVars

\* typeText({selector, type}, text): getElement, the not-found throw, the first
\* element.focus(). What getElement gives for the 'all' kinds has no focus
\* method: the call throws.
typeText(type, q) ==
    LET r == getElement(type, q) IN
    /\ tpc = "idle"
    /\ ttype' = type
    /\ telement' = r.element
    /\ IF Falsy(r.element)
       THEN /\ tpc' = "failed"
            /\ terrors' = terrors + r.errs + 1
            /\ diags' = diags \o r.diags \o << TextDiag(type, textArg) >>
            /\ UNCHANGED << acts, focused >>
       ELSE IF r.element # "el"
       THEN /\ tpc' = "failed"
            /\ terrors' = terrors + 1
            /\ diags' = Append(diags, TextDiag(type, textArg))
            /\ UNCHANGED << acts, focused >>
       ELSE /\ tpc' = "focus"
            /\ acts' = Append(acts, Act("focus", ""))
            /\ focused' = TRUE
            /\ UNCHANGED << terrors, diags >>
    /\ UNCHANGED << textArg, lines, li, ci, clickCount >>
    /\ UNCHANGED nonTypeVars

\* `await element.focus()` resolves: the text is converted and split, the loops
\* start.
FocusResolved ==
    /\ tpc = "focus"
    /\ lines' = Split(ToText(textArg))
    /\ Loop(Split(ToText(textArg)), 1, 1)
    /\ UNCHANGED << textArg, focused, terrors >>
    /\ UNCHANGED << ttype, telement, diags, clickCount >>
    /\ UNCHANGED nonTypeVars

\* Mutant: the check's answer is not acted on.
ensureFocus_NoRefocus(isFocused) ==
    /\ tpc' = "type"
    /\ acts' = acts \o << Act("check", IF isFocused THEN "ok" ELSE "lost"),
                          Act("type", lines[li][ci]) >>
    /\ UNCHANGED focused

\* ensureFocus after its page.evaluate: element.focus() when the element is not
\* the active one. Gives the next position and the actions issued.
ensureFocus(isFocused) ==
    IF ~isFocused
    THEN /\ tpc' = "refocus"
         /\ acts' = acts \o << Act("check", "lost"), Act("focus", "") >>
         /\ focused' = TRUE
    ELSE /\ tpc' = "type"
         /\ acts' = acts \o << Act("check", "ok"), Act("type", lines[li][ci]) >>
         /\ UNCHANGED focused

\* `page.evaluate(el => document.activeElement === el, element)` resolves.
CheckResolved ==
    /\ tpc = "check"
    /\ ensureFocus(focused)
    /\ UNCHANGED << textArg, lines, li, ci, terrors >>
    /\ UNCHANGED << ttype, telement, diags, clickCount >>
    /\ UNCHANGED nonTypeVars

\* The element.focus() of ensureFocus resolves: element.type(char) is issued.
RefocusResolved ==
    /\ tpc = "refocus"
    /\ tpc' = "type"
    /\ acts' = Append(acts, Act("type", lines[li][ci]))
    /\ UNCHANGED << textArg, lines, li, ci, focused, terrors >>
    /\ UNCHANGED << ttype, telement, diags, clickCount >>
    /\ UNCHANGED nonTypeVars

\* `await element.type(char)` resolves: the next character.
TypeResolved ==
    /\ tpc = "type"
    /\ Loop(lines, li, ci + 1)
    /\ UNCHANGED << textArg, lines, focused, terrors >>
    /\ UNCHANGED << ttype, telement, diags, clickCount >>
    /\ UNCHANGED nonTypeVars

\* `await element.press('Enter')` resolves: the next line.
PressResolved ==
    /\ tpc = "press"
    /\ Loop(lines, li + 1, 1)
    /\ UNCHANGED << textArg, lines, focused, terrors >>
    /\ UNCHANGED << ttype, telement, diags, clickCount >>
    /\ UNCHANGED nonTypeVars

\* The page moves the focus away from the element (a validation script).
FocusDrift ==
    /\ tpc \in {"check", "refocus", "type", "press"}
    /\ focused
    /\ focused' = FALSE
    /\ UNCHANGED << tpc, textArg, lines, li, ci, acts, terrors >>
    /\ UNCHANGED << ttype, telement, diags, clickCount >>
    /\ UNCHANGED nonTypeVars

\* The awaited page primitive rejects: typeText's catch block. `text` has been
\* reassigned to the converted string once the first focus has resolved.
PrimitiveRejected ==
    /\ tpc \in {"focus", "check", "refocus", "type", "press"}
    /\ tpc' = "failed"
    /\ terrors' = terrors + 1
    /\ diags' = Append(diags,
                    TextDiag(ttype, IF tpc = "focus" THEN textArg
                                    ELSE [kind |-> "string", s |-> ToText(textArg)]))
    /\ UNCHANGED << textArg, lines, li, ci, focused, acts >>
    /\ UNCHANGED << ttype, telement, clickCount >>
    /\ UNCHANGED nonTypeVars

NextType ==
    \/ \E type \in Types, q \in Queries : typeText(type, q)
    \/ FocusResolved
    \/ CheckResolved
    \/ RefocusResolved
    \/ TypeResolved
    \/ PressResolved
    \/ FocusDrift
    \/ PrimitiveRejected

SpecType == InitType /\ [][NextType]_vars

\* ========================================================== randomNumber
\* Math.random() returns rnd / RandSteps for an rnd in 0 .. RandSteps - 1: a
\* number in [0, 1).
RandSteps == 4
Rand == 0..(RandSteps - 1)
\* The numeric arguments of the calls.
MaxArg == 3
ArgRange == 0..MaxArg

\* Mutant: the bounds are used in the order given.
randomNumber_NoSwap(min, max, r) ==
    ((r * (max - min + 1)) \div RandSteps) + min

\* Helpers.randomNumber(min, max) when Math.random() returns r / RandSteps:
\* the swap, then Math.floor(Math.random() * (max - min + 1)) + min.
randomNumber(min, max, r) ==
    LET lo == IF min > max THEN max ELSE min
        hi == IF min > max THEN min ELSE max
    IN ((r * (hi - lo + 1)) \div RandSteps) + lo

\* `utilities.Helpers.randomNumber(3, 6)` of clearInput.
ClearInputCount(r) == randomNumber(3, 6, r)

\* ============================================================ clearInput
ClearInit ==
    /\ tpc = "idle"
    /\ textArg = [kind |-> "undefined"]
    /\ lines = << >>
    /\ li = 0
    /\ ci = 0
    /\ focused = FALSE
    /\ acts = << >>
    /\ terrors = 0
    /\ ttype = "none"
    /\ telement = "none"
    /\ diags = << >>
    /\ clickCount = 0

InitClear == NavOff /\ ClearInit /\ DomOff /\ PureOff /\ ScrollOff /\ TwoOff /\ UserOff

\* clearInput({selector, type}): getElement, the not-found throw, the random
\* click count and element.click({ clickCount }). What getElement gives for the
\* 'all' kinds has no click method: the call throws. Math.random() returns
\* r / RandSteps.
clearInput(type, q, r) ==
    LET g == getElement(type, q) IN
    /\ tpc = "idle"
    /\ ttype' = type
    /\ telement' = g.element
    /\ IF Falsy(g.element)
       THEN /\ tpc' = "failed"
            /\ terrors' = terrors + g.errs + 1
            /\ diags' = diags \o g.diags \o << Diag(type) >>
            /\ UNCHANGED << acts, clickCount >>
       ELSE IF g.element # "el"
       THEN /\ tpc' = "failed"
            /\ terrors' = terrors + 1
            /\ diags' = Append(diags, Diag(type))
            /\ UNCHANGED << acts, clickCount >>
       ELSE /\ tpc' = "click"
            /\ clickCount' = ClearInputCount(r)
            /\ acts' = Append(acts, Act("click", ""))
            /\ UNCHANGED << terrors, diags >>
    /\ UNCHANGED << textArg, lines, li, ci, focused >>
    /\ UNCHANGED nonTypeVars

\* Mutant: Backspace is pressed without the wait.
ClearClickResolved_NoWait ==
    /\ tpc = "click"
    /\ tpc' = "backspace"
    /\ acts' = Append(acts, Act("Backspace", ""))
    /\ UNCHANGED << textArg, lines, li, ci, focused, terrors >>
    /\ UNCHANGED << ttype, telement, diags, clickCount >>
    /\ UNCHANGED nonTypeVars

\* `await element.click(...)` resolves: utilities.randomWait() is called.
ClearClickResolved ==
    /\ tpc = "click"
    /\ tpc' = "wait"
    /\ acts' = Append(acts, Act("wait", ""))
    /\ UNCHANGED << textArg, lines, li, ci, focused, terrors >>
    /\ UNCHANGED << ttype, telement, diags, clickCount >>
    /\ UNCHANGED nonTypeVars

\* `await utilities.randomWait()` resolves: element.press('Backspace').
ClearWaitResolved ==
    /\ tpc = "wait"
    /\ tpc' = "backspace"
    /\ acts' = Append(acts, Act("Backspace", ""))
    /\ UNCHANGED << textArg, lines, li, ci, focused, terrors >>
    /\ UNCHANGED << ttype, telement, diags, clickCount >>
    /\ UNCHANGED nonTypeVars

\* `await element.press('Backspace')` resolves: the call returns.
ClearPressResolved ==
    /\ tpc = "backspace"
    /\ tpc' = "done"
    /\ UNCHANGED << textArg, lines, li, ci, focused, acts, terrors >>
    /\ UNCHANGED << ttype, telement, diags, clickCount >>
    /\ UNCHANGED nonTypeVars

\* The awaited primitive rejects: clearInput's catch block.
ClearPrimitiveRejected ==
    /\ tpc \in {"click", "wait", "backspace"}
    /\ tpc' = "failed"
    /\ terrors' = terrors + 1
    /\ diags' = Append(diags, Diag(ttype))
    /\ UNCHANGED << textArg, lines, li, ci, focused, acts >>
    /\ UNCHANGED << ttype, telement, clickCount >>
    /\ UNCHANGED nonTypeVars

NextClear ==
    \/ \E type \in Types, q \in Queries, r \in Rand : clearInput(type, q, r)
    \/ ClearClickResolved
    \/ ClearWaitResolved
    \/ ClearPressResolved
    \/ ClearPrimitiveRejected

SpecClear == InitClear /\ [][NextClear]_vars

\* ============================== getElement, checkElement, selectOption
\* Elements of the page model; every one is a <select>.
MaxNodes == 2

\* Attribute values on the page; "" is an attribute the element does not have.
Ids == {"a", "b"}
ClassNames == {"a"}
FieldNames == {"a"}
Nodes == [id : Ids \cup {""}, class : ClassNames \cup {""}, name : FieldNames \cup {""}]
Pages == UNION {[1..n -> Nodes] : n \in 0..MaxNodes}

\* Selector strings are sequences of tokens: a name, or one of the pieces of
\* syntax the code and its callers write around names.
Names == {"a", "b"}
CssOpen == {"[id=\"", "[name=\""}
XPathOpen == {"//*[@id=\"", "//*[@class=\"", "//*[@name=\""}
Close == "\"]"
Quoted(open, str) == << open >> \o str \o << Close >>
\* The selector arguments of the calls.
Selectors ==
    {<< n >> : n \in Names}
        \cup {<< ".", n >> : n \in Names}
        \cup {<< "#", n >> : n \in Names}
        \cup {Quoted(o, << n >>) : o \in CssOpen \cup XPathOpen, n \in Names}

\* The template literals of getElement and selectOption.
IdSelector(selector) == << "[id=\"" >> \o selector \o << "\"]" >>
ClassSelector_Hash(selector) == << "#" >> \o selector
ClassSelector(selector) == << "." >> \o selector
NameSelector(dropdownSelector) == << "[name=\"" >> \o dropdownSelector \o << "\"]" >>

\* The text between the opening token and the closing one, when `sel` has that
\* shape and the text holds no quote.
IsQuoted(sel, opens) ==
    /\ Len(sel) >= 2
    /\ sel[1] \in opens
    /\ sel[Len(sel)] = Close
    /\ \A k \in 2..(Len(sel) - 1) : sel[k] \in Names \cup {".", "#"}
QuotedValue(sel) == SubSeq(sel, 2, Len(sel) - 1)

\* The attribute of a node as a string (el.id, el.className, el.name).
AttrString(value) == IF value = "" THEN << >> ELSE << value >>

\* The CSS selectors the page accepts: .name, #name, [id="..."], [name="..."]
\* and a tag name. Anything else is a SyntaxError of querySelector.
CssValid(sel) ==
    \/ Len(sel) = 1 /\ sel[1] \in Names
    \/ Len(sel) = 2 /\ sel[1] \in {".", "#"} /\ sel[2] \in Names
    \/ IsQuoted(sel, CssOpen)

\* element.matches(sel) for a valid selector. No element has a tag called like
\* a name, and an attribute selector matches an attribute that is present.
CssMatches(sel, node) ==
    IF Len(sel) = 1 THEN FALSE
    ELSE IF sel[1] = "." THEN node.class = sel[2]
    ELSE IF sel[1] = "#" THEN node.id = sel[2]
    ELSE IF sel[1] = "[id=\""
    THEN node.id # "" /\ QuotedValue(sel) = AttrString(node.id)
    ELSE node.name # "" /\ QuotedValue(sel) = AttrString(node.name)

\* The XPath expressions document.evaluate accepts: //*[@attr="..."] and a
\* bare name (a child element of that name, which the document does not have).
XPathValid(sel) ==
    \/ Len(sel) = 1 /\ sel[1] \in Names
    \/ IsQuoted(sel, XPathOpen)

XPathMatches(sel, node) ==
    IF Len(sel) = 1 THEN FALSE
    ELSE IF sel[1] = "//*[@id=\""
    THEN node.id # "" /\ QuotedValue(sel) = AttrString(node.id)
    ELSE IF sel[1] = "//*[@class=\""
    THEN node.class # "" /\ QuotedValue(sel) = AttrString(node.class)
    ELSE node.name # "" /\ QuotedValue(sel) = AttrString(node.name)

\* The answer of a page primitive: it throws, or gives the matching elements
\* (their positions) in document order.
Answer(throws, nodes) == [throws |-> throws, nodes |-> nodes]
Positions(pg) == [k \in 1..Len(pg) |-> k]

\* page.$ / page.$$ / page.select's lookup.
QuerySelectorAll(pg, sel) ==
    IF CssValid(sel)
    THEN Answer(FALSE, SelectSeq(Positions(pg), LAMBDA k : CssMatches(sel, pg[k])))
    ELSE Answer(TRUE, << >>)

\* document.evaluate(xpath, document, ...) / page.$x.
XPathEvaluate(pg, sel) ==
    IF XPathValid(sel)
    THEN Answer(FALSE, SelectSeq(Positions(pg), LAMBDA k : XPathMatches(sel, pg[k])))
    ELSE Answer(TRUE, << >>)

\* The query getElement's switch issues for a supported kind.
PageQuery(pg, type, selector) ==
    CASE type = "id" -> QuerySelectorAll(pg, IdSelector(selector))
      [] type = "selector" -> QuerySelectorAll(pg, selector)
      [] type = "class" -> QuerySelectorAll(pg, ClassSelector(selector))
      [] type = "allSelector" -> QuerySelectorAll(pg, selector)
      [] type \in {"xpath", "allXpath"} -> XPathEvaluate(pg, selector)

AnswerKind(r) ==
    IF r.throws THEN "throws" ELSE IF r.nodes = << >> THEN "nomatch" ELSE "match"

Out(ret, node, queries, error, ds, xnode) ==
    [ret |-> ret, node |-> node, queries |-> queries, error |-> error,
     diags |-> ds, xnode |-> xnode]

\* Mutant: an unrecognised kind is looked up as a plain selector.
getElementOn_DefaultSelector(pg, type, selector) ==
    LET r == IF type \in SupportedTypes THEN PageQuery(pg, type, selector)
             ELSE QuerySelectorAll(pg, selector)
        g == getElement(IF type \in SupportedTypes THEN type ELSE "selector",
                        AnswerKind(r))
    IN Out(g.element, IF g.element = "el" THEN r.nodes[1] ELSE 0, 1,
           IF r.throws THEN "page" ELSE "none", g.diags, 0)

\* getElement({selector, type}) on page pg: the value returned, the element it
\* is a handle of, the page queries issued, the error caught and the
\* diagnostics given to handleError.
getElementOn(pg, type, selector) ==
    IF type \notin SupportedTypes
    THEN LET g == getElement(type, "nomatch")
         IN Out(g.element, 0, 0, "unsupported", g.diags, 0)
    ELSE LET r == PageQuery(pg, type, selector)
             g == getElement(type, AnswerKind(r))
         IN Out(g.element, IF g.element = "el" THEN r.nodes[1] ELSE 0,
                IF type = "allXpath" /\ ~r.throws THEN 2 ELSE 1,
                IF r.throws THEN "page" ELSE "none", g.diags, 0)

\* Mutant: the test is `=== null`.
checkElement_Negated(pg, type, selector) ==
    IF type \notin {"selector", "xpath"}
    THEN Out("undefined", 0, 0, "unsupported", << Diag(type) >>, 0)
    ELSE LET r == IF type = "selector" THEN QuerySelectorAll(pg, selector)
                  ELSE XPathEvaluate(pg, selector)
         IN IF r.throws
            THEN Out("undefined", 0, 1, "page", << Diag(type) >>, 0)
            ELSE Out(IF r.nodes = << >> THEN "true" ELSE "false", 0, 1, "none", << >>, 0)

\* checkElement({selector, type}) on page pg: `page.$(selector) !== null`, the
\* XPath's singleNodeValue `!== null`, or the throw for another kind; the catch
\* block returns undefined.
checkElement(pg, type, selector) ==
    IF type \notin {"selector", "xpath"}
    THEN Out("undefined", 0, 0, "unsupported", << Diag(type) >>, 0)
    ELSE LET r == IF type = "selector" THEN QuerySelectorAll(pg, selector)
                  ELSE XPathEvaluate(pg, selector)
         IN IF r.throws
            THEN Out("undefined", 0, 1, "page", << Diag(type) >>, 0)
            ELSE Out(IF r.nodes # << >> THEN "true" ELSE "false", 0, 1, "none", << >>, 0)

\* `el.name || el.id || el.className` of the element the XPath matched.
DropdownSelector(node) ==
    IF node.name # "" THEN AttrString(node.name)
    ELSE IF node.id # "" THEN AttrString(node.id)
    ELSE AttrString(node.class)

\* page.select(sel, optionValue): the first element sel matches gets the
\* option; it throws when sel is malformed or matches nothing.
PageSelect(pg, sel, type, queries, xnode) ==
    LET r == QuerySelectorAll(pg, sel)
    IN IF r.throws \/ r.nodes = << >>
       THEN Out("undefined", 0, queries, "page", << OptionDiag(type) >>, xnode)
       ELSE Out("selected", r.nodes[1], queries, "none", << >>, xnode)

\* selectOption({selector, type}, optionValue) on page pg: the element on which
\* the option was selected (node), the element the XPath matched (xnode).
selectOption(pg, type, selector) ==
    IF type = "selector" THEN PageSelect(pg, selector, type, 1, 0)
    ELSE IF type = "xpath"
    THEN LET x == XPathEvaluate(pg, selector)
         IN IF x.throws \/ x.nodes = << >>
            THEN Out("undefined", 0, 1, IF x.throws THEN "page" ELSE "notfound",
                     << OptionDiag(type) >>, 0)
            ELSE PageSelect(pg, NameSelector(DropdownSelector(pg[x.nodes[1]])),
                            type, 2, x.nodes[1])
    ELSE Out("undefined", 0, 0, "unsupported", << OptionDiag(type) >>, 0)

DomInit ==
    /\ page \in Pages
    /\ dcall = NoCall
    /\ dout = NoOut

InitDom == NavOff /\ TypeOff /\ DomInit /\ PureOff /\ ScrollOff /\ TwoOff /\ UserOff

Call(fn, type, selector) == [fn |-> fn, type |-> type, selector |-> selector]

CallGetElement(type, selector) ==
    /\ dcall = NoCall
    /\ dcall' = Call("getElement", type, selector)
    /\ dout' = getElementOn(page, type, selector)
    /\ UNCHANGED << page, nonDomVars >>

CallCheckElement(type, selector) ==
    /\ dcall = NoCall
    /\ dcall' = Call("checkElement", type, selector)
    /\ dout' = checkElement(page, type, selector)
    /\ UNCHANGED << page, nonDomVars >>

CallSelectOption(type, selector) ==
    /\ dcall = NoCall
    /\ dcall' = Call("selectOption", type, selector)
    /\ dout' = selectOption(page, type, selector)
    /\ UNCHANGED << page, nonDomVars >>

NextDom ==
    \/ \E type \in Types, selector \in Selectors : CallGetElement(type, selector)
    \/ \E type \in Types, selector \in Selectors : CallCheckElement(type, selector)
    \/ \E type \in Types, selector \in Selectors : CallSelectOption(type, selector)

SpecDom == InitDom /\ [][NextDom]_vars

\* ========================================================= scroll bounds
\* Mutant: no swap of the bounds.
Normalise_NoSwap(min, max) == [min |-> min, max |-> max]

\* `if (min > max) [min, max] = [max, min]` of randomScroll / scrollToElement.
Normalise(min, max) ==
    IF min > max THEN [min |-> max, max |-> min] ELSE [min |-> min, max |-> max]

\* `Date.now() + Math.random() * (max - min) + min`, as time after Date.now()
\* in units of 1/RandSteps ms.
EndTime(t, r) == r * (t.max - t.min) + RandSteps * t.min

\* randomScroll(maxScrollingTime, minScrollingTime, maxScrollingSpeed,
\* minScrollingSpeed): the end time computed and the arguments given to the
\* in-page loop.
randomScroll(maxTime, minTime, maxSpeed, minSpeed, r) ==
    LET t == Normalise(minTime, maxTime)
        v == Normalise(minSpeed, maxSpeed)
    IN [endTime |-> EndTime(t, r),
        inPage |-> [maxScrollingSpeed |-> v.max,
                    minScrollingSpeed |-> v.min,
                    endTime |-> EndTime(t, r)]]

\* The in-page delay before the next step, in units of 1/RandSteps ms:
\* `Math.random() * (maxScrollingSpeed - minScrollingSpeed) + minScrollingSpeed`
\* with the in-page function's own parameters.
StepDelay(inPage, r) ==
    r * (inPage.maxScrollingSpeed - inPage.minScrollingSpeed)
        + RandSteps * inPage.minScrollingSpeed

\* `targetPosition - offset` of scrollToElement's in-page function.
InitialScrollOffset(top, inPage) == top - inPage.offset

\* The fallback of scrollToElement: randomScroll(10000, 6000, 2000, null);
\* null counts as 0 in the comparison and the arithmetic.
FALLBACK_MAX_TIME == 10000
FALLBACK_MIN_TIME == 6000
FALLBACK_MAX_SPEED == 2000
NULL_AS_NUMBER == 0

\* scrollToElement(element, maxScrollingTime, minScrollingTime,
\* maxScrollingSpeed, minScrollingSpeed, offset): the end time computed, and
\* either the arguments the in-page function receives under its parameter names
\* (the call passes offset, maxScrollingSpeed, minScrollingSpeed in that order)
\* or, when checkElement gave no element, the fallback randomScroll.
scrollToElement(maxTime, minTime, maxSpeed, minSpeed, offset, found, r, r2) ==
    LET t == Normalise(minTime, maxTime)
        v == Normalise(minSpeed, maxSpeed)
    IN IF found
       THEN [endTime |-> EndTime(t, r),
             inPage |-> [maxScrollingSpeed |-> offset,
                         minScrollingSpeed |-> v.max,
                         offset |-> v.min,
                         endTime |-> EndTime(t, r)]]
       ELSE [endTime |-> EndTime(t, r),
             inPage |-> randomScroll(FALLBACK_MAX_TIME, FALLBACK_MIN_TIME,
                                     FALLBACK_MAX_SPEED, NULL_AS_NUMBER, r2).inPage]

PureInit ==
    /\ rnd \in Rand
    /\ pargs \in [1..5 -> ArgRange]
    /\ pfn = "none"
    /\ pout = 0

InitPure == NavOff /\ TypeOff /\ DomOff /\ PureInit /\ ScrollOff /\ TwoOff /\ UserOff

CallRandomNumber ==
    /\ pfn = "none"
    /\ pfn' = "randomNumber"
    /\ pout' = randomNumber(pargs[1], pargs[2], rnd)
    /\ UNCHANGED << rnd, pargs, nonPureVars >>

CallClearInputCount ==
    /\ pfn = "none"
    /\ pfn' = "clearInput"
    /\ pout' = ClearInputCount(rnd)
    /\ UNCHANGED << rnd, pargs, nonPureVars >>

CallRandomScroll ==
    /\ pfn = "none"
    /\ pfn' = "randomScroll"
    /\ pout' = randomScroll(pargs[1], pargs[2], pargs[3], pargs[4], rnd)
    /\ UNCHANGED << rnd, pargs, nonPureVars >>

CallScrollToElement(found, r2) ==
    /\ pfn = "none"
    /\ pfn' = IF found THEN "scrollToElement" ELSE "scrollToElementFallback"
    /\ pout' = scrollToElement(pargs[1], pargs[2], pargs[3], pargs[4], pargs[5],
                               found, rnd, r2)
    /\ UNCHANGED << rnd, pargs, nonPureVars >>

NextPure ==
    \/ CallRandomNumber
    \/ CallClearInputCount
    \/ CallRandomScroll
    \/ \E found \in BOOLEAN, r2 \in Rand : CallScrollToElement(found, r2)

SpecPure == InitPure /\ [][NextPure]_vars

\* ================================================ randomScroll's loop
\* The clock is read in quanta of ScrollQuantum ms: sleft counts the quanta
\* until endTime. A delay never ends early, and a step of the loop, which
\* gives way to the event loop, takes one quantum at least.
ScrollQuantum == 500
\* The time and speed arguments of the direct calls.
ScrollArgs == {0, ScrollQuantum}
\* The largest scroll position of the document.
PageHeight == 400

\* A call of randomScroll(maxScrollingTime, minScrollingTime,
\* maxScrollingSpeed, minScrollingSpeed).
ScrollCall(maxTime, minTime, maxSpeed, minSpeed) ==
    [maxTime |-> maxTime, minTime |-> minTime,
     maxSpeed |-> maxSpeed, minSpeed |-> minSpeed]
\* scrollToElement's call when it has not found its element.
FallbackCall ==
    ScrollCall(FALLBACK_MAX_TIME, FALLBACK_MIN_TIME, FALLBACK_MAX_SPEED, NULL_AS_NUMBER)
ScrollCalls ==
    {ScrollCall(a, b, c, d) : a \in ScrollArgs, b \in ScrollArgs,
                              c \in ScrollArgs, d \in ScrollArgs}
        \cup {FallbackCall}

ScrollInit ==
    /\ spc = "idle"
    /\ scall \in ScrollCalls
    /\ sinPage = << >>
    /\ sleft = 0
    /\ scrollY = 0
    /\ sstep = NoStep

InitScroll == NavOff /\ TypeOff /\ DomOff /\ PureOff /\ ScrollInit /\ TwoOff /\ UserOff

\* `Math.random() < scrollDownProbability` with the probability 0.75.
IsScrollDown(r) == 4 * r < 3 * RandSteps

\* `Math.floor(Math.random() * (550 - 300 + 1)) + 300`.
RandomScrollAmount(r) == ((r * (550 - 300 + 1)) \div RandSteps) + 300

\* Mutant: no Math.max(0, ...).
ScrollTo_Unclamped(position) == IF position > PageHeight THEN PageHeight ELSE position

\* `window.scrollTo(0, Math.max(0, newScrollPosition))`; the document ends at
\* PageHeight.
ScrollTo(position) ==
    IF position < 0 THEN 0
    ELSE IF position > PageHeight THEN PageHeight ELSE position

\* Mutant: the loop's test is never false.
ClockBefore_Always(left) == TRUE

\* `Date.now() < endTime`.
ClockBefore(left) == left > 0

\* A time, in 1/RandSteps ms, in quanta of the clock, rounded up.
Quanta(time) == (time + RandSteps * ScrollQuantum - 1) \div (RandSteps * ScrollQuantum)

\* The time a delay takes on the clock: the delay, and one quantum at least.
TimeTaken(delay) == IF Quanta(delay) > 1 THEN Quanta(delay) ELSE 1

\* The loop from its test on, with `left` to go until endTime: one step (the
\* scroll, then the delay is awaited) or the end of the in-page function,
\* after which randomScroll awaits utilities.randomWait(). A step draws
\* three random numbers: the direction, the amount and the delay.
LoopFrom(left, inPage) ==
    /\ sleft' = left
    /\ IF ClockBefore(left)
       THEN /\ spc' = "delay"
            /\ \E r1 \in Rand, r2 \in Rand :
                 LET amount == IF IsScrollDown(r1) THEN RandomScrollAmount(r2)
                               ELSE 0 - RandomScrollAmount(r2)
                 IN /\ scrollY' = ScrollTo(scrollY + amount)
                    /\ \E r3 \in Rand :
                         sstep' = [amount |-> amount, delay |-> StepDelay(inPage, r3)]
       ELSE /\ spc' = "randomWait"
            /\ UNCHANGED << scrollY, sstep >>

\* randomScroll(...) up to the first await inside the page: the bounds are
\* normalised, endTime is computed, the in-page function starts its loop.
randomScrollLoop(r) ==
    /\ spc = "idle"
    /\ LET plan == randomScroll(scall.maxTime, scall.minTime,
                                scall.maxSpeed, scall.minSpeed, r)
       IN /\ sinPage' = plan.inPage
          /\ LoopFrom(Quanta(plan.endTime), plan.inPage)
    /\ UNCHANGED << scall, nonScrollVars >>

\* `await delay(randomDelay)` resolves: the loop's test again.
DelayElapsed ==
    /\ spc = "delay"
    /\ LET taken == TimeTaken(sstep.delay)
       IN LoopFrom(IF sleft > taken THEN sleft - taken ELSE 0, sinPage)
    /\ UNCHANGED << scall, sinPage, nonScrollVars >>

\* `await utilities.randomWait()` resolves: randomScroll returns.
RandomWaitResolved ==
    /\ spc = "randomWait"
    /\ spc' = "done"
    /\ UNCHANGED << scall, sinPage, sleft, scrollY, sstep, nonScrollVars >>

\* page.evaluate or randomWait rejects: randomScroll's catch block.
ScrollRejected ==
    /\ spc \in {"delay", "randomWait"}
    /\ spc' = "failed"
    /\ UNCHANGED << scall, sinPage, sleft, scrollY, sstep, nonScrollVars >>

NextScroll ==
    \/ \E r \in Rand : randomScrollLoop(r)
    \/ DelayElapsed
    \/ RandomWaitResolved
    \/ ScrollRejected

\* A delay that is awaited ends.
SpecScroll == InitScroll /\ [][NextScroll]_vars /\ WF_vars(DelayElapsed)

\* ======================================== two sessions on the same page
\* Two calls of handleHotmailNavigation, or two of handleGmailNavigation (isp
\* is one setting of the process), run on one page. Each call has its own
\* locals and its own navigationHandler closure; the page has one list of
\* 'framenavigated' listeners. Time is counted in quanta of TwoQuantum ms
\* since the session's last timestamp, up to the first count that lies above
\* SETTLE_TIMEOUT.
TwoSessions == {1, 2}
MaxTwoEvents == 2
TwoQuantum == 5000
SinceCap == (SETTLE_TIMEOUT \div TwoQuantum) + 1

\* The locals of a call that has not started, and no handler invocation:
\* `logging` counts, per frame, the invocations suspended in logMessage, and
\* `waiting` is the position of the one invocation inside the guarded block.
TwoIdle ==
    [pc |-> "idle", navigationResolving |-> FALSE, lastLoggedFrameID |-> "null",
     since |-> 0, waiting |-> "none", logging |-> [f \in Frames |-> 0],
     calls |-> 0]

TwoInit ==
    /\ tisp \in {"hotmail", "gmail"}
    /\ sess = [s \in TwoSessions |-> TwoIdle]
    /\ listeners = {}
    /\ twoEvents = 0

InitTwo == NavOff /\ TypeOff /\ DomOff /\ PureOff /\ ScrollOff /\ TwoInit /\ UserOff

\* The guarded block of a session's navigationHandler, on the session's own
\* flag.
TwoGuardedBlock(x) ==
    IF ~x.navigationResolving
    THEN [x EXCEPT !.navigationResolving = TRUE,
                   !.waiting = IF tisp = "hotmail" THEN "wait" ELSE "grace"]
    ELSE x

\* A session's navigationHandler(frame) up to its first await, on the
\* session's own locals.
TwoHandler(x, frame) ==
    LET stamped == IF tisp = "hotmail"
                   THEN [x EXCEPT !.since = 0, !.calls = @ + 1]
                   ELSE [x EXCEPT !.calls = @ + 1]
    IN IF stamped.lastLoggedFrameID # frame
       THEN [stamped EXCEPT !.logging[frame] = @ + 1]
       ELSE TwoGuardedBlock(stamped)

\* Mutant: page.off removes every 'framenavigated' listener.
TwoDetach_All(s) == {}

\* `page.off('framenavigated', navigationHandler)` with the session's own
\* handler.
TwoDetach(s) == listeners \ {s}

\* handle*Navigation(page, element) up to `await element.click()`: the locals
\* are initialised, the session's handler is attached, the click is issued.
TwoStart(s) ==
    /\ sess[s].pc = "idle"
    /\ sess' = [sess EXCEPT ![s] = [TwoIdle EXCEPT !.pc = "click"]]
    /\ listeners' = listeners \cup {s}
    /\ UNCHANGED << tisp, twoEvents, nonTwoVars >>

\* `await element.click()` resolves: the direct wait is issued.
TwoClickResolved(s) ==
    /\ sess[s].pc = "click"
    /\ sess' = [sess EXCEPT ![s].pc = "directWait"]
    /\ UNCHANGED << tisp, listeners, twoEvents, nonTwoVars >>

\* `await element.click()` rejects: the call ends, page.off is not reached.
TwoClickRejected(s) ==
    /\ sess[s].pc = "click"
    /\ sess' = [sess EXCEPT ![s].pc = "rejected"]
    /\ UNCHANGED << tisp, listeners, twoEvents, nonTwoVars >>

\* The direct waitForNavigation ends (any rejection is swallowed): the
\* settlement promise starts polling.
TwoDirectWaitEnd(s) ==
    /\ sess[s].pc = "directWait"
    /\ sess' = [sess EXCEPT ![s].pc = "poll"]
    /\ UNCHANGED << tisp, listeners, twoEvents, nonTwoVars >>

\* The settlement condition on the session's own locals.
TwoSettled(x) ==
    IF tisp = "hotmail"
    THEN ~x.navigationResolving /\ x.since * TwoQuantum > SETTLE_TIMEOUT
    ELSE ~x.navigationResolving

\* A check of the settlement promise finds its condition true; a check that
\* finds it false changes nothing and schedules the next one.
TwoPollResolved(s) ==
    /\ sess[s].pc = "poll"
    /\ TwoSettled(sess[s])
    /\ sess' = [sess EXCEPT ![s].pc = "logDone"]
    /\ UNCHANGED << tisp, listeners, twoEvents, nonTwoVars >>

\* The completion logMessage resolves: page.off, the call returns.
TwoCompleted(s) ==
    /\ sess[s].pc = "logDone"
    /\ sess' = [sess EXCEPT ![s].pc = "done"]
    /\ listeners' = TwoDetach(s)
    /\ UNCHANGED << tisp, twoEvents, nonTwoVars >>

\* The completion logMessage rejects: the call ends before page.off.
TwoCompletionRejected(s) ==
    /\ sess[s].pc = "logDone"
    /\ sess' = [sess EXCEPT ![s].pc = "rejected"]
    /\ UNCHANGED << tisp, listeners, twoEvents, nonTwoVars >>

\* The page fires 'framenavigated' for `frame`: every listener is called, one
\* after the other, each up to its first await.
TwoNavEvent(frame) ==
    /\ twoEvents < MaxTwoEvents
    /\ twoEvents' = twoEvents + 1
    /\ sess' = [s \in TwoSessions |->
                  IF s \in listeners THEN TwoHandler(sess[s], frame) ELSE sess[s]]
    /\ UNCHANGED << tisp, listeners, nonTwoVars >>

\* An invocation of the session's handler resumes after its logMessage.
TwoHandlerLogged(s, frame) ==
    /\ sess[s].logging[frame] > 0
    /\ sess' = [sess EXCEPT ![s] =
                  TwoGuardedBlock([@ EXCEPT !.logging[frame] = @ - 1,
                                            !.lastLoggedFrameID = frame])]
    /\ UNCHANGED << tisp, listeners, twoEvents, nonTwoVars >>

\* The handler's logMessage rejects: the invocation ends there.
TwoHandlerLogRejected(s, frame) ==
    /\ sess[s].logging[frame] > 0
    /\ sess' = [sess EXCEPT ![s].logging[frame] = @ - 1]
    /\ UNCHANGED << tisp, listeners, twoEvents, nonTwoVars >>

\* Gmail: the 1000 ms timer of the guarded block fires, the wait starts.
TwoGraceEnd(s) ==
    /\ sess[s].waiting = "grace"
    /\ sess' = [sess EXCEPT ![s].waiting = "wait"]
    /\ UNCHANGED << tisp, listeners, twoEvents, nonTwoVars >>

\* The guarded waitForNavigation ends: the finally block clears the
\* session's flag.
TwoWaitEnd(s) ==
    /\ sess[s].waiting = "wait"
    /\ sess' = [sess EXCEPT ![s].waiting = "none",
                            ![s].navigationResolving = FALSE]
    /\ UNCHANGED << tisp, listeners, twoEvents, nonTwoVars >>

\* The clock advances by one quantum: every running Hotmail session is one
\* quantum further from its last timestamp.
TwoTick ==
    /\ tisp = "hotmail"
    /\ \E s \in TwoSessions : sess[s].pc # "idle" /\ sess[s].since < SinceCap
    /\ sess' = [s \in TwoSessions |->
                  IF sess[s].pc # "idle" /\ sess[s].since < SinceCap
                  THEN [sess[s] EXCEPT !.since = @ + 1]
                  ELSE sess[s]]
    /\ UNCHANGED << tisp, listeners, twoEvents, nonTwoVars >>

NextTwo ==
    \/ \E s \in TwoSessions : TwoStart(s)
    \/ \E s \in TwoSessions : TwoClickResolved(s)
    \/ \E s \in TwoSessions : TwoClickRejected(s)
    \/ \E s \in TwoSessions : TwoDirectWaitEnd(s)
    \/ \E s \in TwoSessions : TwoPollResolved(s)
    \/ \E s \in TwoSessions : TwoCompleted(s)
    \/ \E s \in TwoSessions : TwoCompletionRejected(s)
    \/ \E frame \in Frames : TwoNavEvent(frame)
    \/ \E s \in TwoSessions, frame \in Frames : TwoHandlerLogged(s, frame)
    \/ \E s \in TwoSessions, frame \in Frames : TwoHandlerLogRejected(s, frame)
    \/ \E s \in TwoSessions : TwoGraceEnd(s)
    \/ \E s \in TwoSessions : TwoWaitEnd(s)
    \/ TwoTick

SpecTwo == InitTwo /\ [][NextTwo]_vars

\* ================================================== generateUsername
\* Strings are sequences of one-character strings. The names given to
\* generateUsername are the strings of up to MaxNameLen characters over one
\* character of each kind the function treats differently.
MaxNameLen == 1
NameChars == {"a", "A", ".", "_", " "}
NameStrings == UNION {[1..n -> NameChars] : n \in 0..MaxNameLen}

\* `chars` of randomString, and the upper-case letters.
RandomChars ==
    << "a", "b", "c", "d", "e", "f", "g", "h", "i", "j", "k", "l", "m",
       "n", "o", "p", "q", "r", "s", "t", "u", "v", "w", "x", "y", "z",
       "0", "1", "2", "3", "4", "5", "6", "7", "8", "9" >>
UpperChars ==
    << "A", "B", "C", "D", "E", "F", "G", "H", "I", "J", "K", "L", "M",
       "N", "O", "P", "Q", "R", "S", "T", "U", "V", "W", "X", "Y", "Z" >>

\* String.prototype.toLowerCase.
ToLowerCase(str) ==
    [k \in 1..Len(str) |->
        IF \E n \in 1..Len(UpperChars) : UpperChars[n] = str[k]
        THEN RandomChars[CHOOSE n \in 1..Len(UpperChars) : UpperChars[n] = str[k]]
        ELSE str[k]]

\* String.prototype.trim.
RECURSIVE TrimStart(_)
TrimStart(str) ==
    IF str # << >> /\ Head(str) = " " THEN TrimStart(Tail(str)) ELSE str
RECURSIVE TrimEnd(_)
TrimEnd(str) ==
    IF str # << >> /\ str[Len(str)] = " "
    THEN TrimEnd(SubSeq(str, 1, Len(str) - 1)) ELSE str
Trim(str) == TrimEnd(TrimStart(str))

\* `name?.trim().toLowerCase() || ''`.
SanitizedName(name) == ToLowerCase(Trim(name))

\* A character of [a-z0-9.].
GmailChar(c) == c = "." \/ \E n \in 1..Len(RandomChars) : RandomChars[n] = c

\* `.replace(/[^a-z0-9.]/g, '')`.
RemoveInvalid(str) == SelectSeq(str, GmailChar)

\* `.replace(/^\.+/, '')`.
RECURSIVE RemoveLeadingDots(_)
RemoveLeadingDots(str) ==
    IF str # << >> /\ Head(str) = "." THEN RemoveLeadingDots(Tail(str)) ELSE str

\* String(n) of a number n >= 0.
RECURSIVE NumberToString(_)
NumberToString(n) ==
    IF n < 10 THEN << RandomChars[27 + n] >>
    ELSE NumberToString(n \div 10) \o << RandomChars[27 + (n % 10)] >>

\* Array.prototype.join.
RECURSIVE Join(_, _)
Join(parts, separator) ==
    IF parts = << >> THEN << >>
    ELSE IF Len(parts) = 1 THEN parts[1]
    ELSE parts[1] \o separator \o Join(Tail(parts), separator)

\* randomString(length) when Math.random() gives r for each character: the
\* calls enumerated are those whose random characters are all the same.
randomString(length, r) ==
    [k \in 1..length |-> RandomChars[((r * Len(RandomChars)) \div RandSteps) + 1]]

\* `Math.floor(Math.random() * 10000)`.
RandomSuffixNumber(r) == (r * 10000) \div RandSteps

\* The loop `while (finalUsername.length < 12)`: every string it can end
\* with, each round drawing its own length.
RECURSIVE PadToTwelve(_, _)
PadToTwelve(str, c) ==
    IF Len(str) < 12
    THEN UNION {PadToTwelve(str \o randomString(randomNumber(2, 4, r), c), c) : r \in Rand}
    ELSE {str}

\* generateUsername(firstName, lastName) with the default username = null:
\* every string it can return when Math.random() gives d.first, d.last,
\* d.start and d.dot to the four choices, d.number to the number, d.length to
\* the length of randomSuffix and d.char to the random characters.
generateUsername(firstName, lastName, d) ==
    LET suffix == randomString(randomNumber(3, 8, d.length), d.char)
        randomSuffixNumber == NumberToString(RandomSuffixNumber(d.number))
        sanitizedFirstName == SanitizedName(firstName)
        sanitizedLastName == SanitizedName(lastName)
        includeFirstName ==
            sanitizedFirstName # << >>
                /\ (10 * d.first > 3 * RandSteps \/ sanitizedLastName = << >>)
        includeLastName ==
            sanitizedLastName # << >>
                /\ (10 * d.last > 3 * RandSteps \/ sanitizedFirstName = << >>)
        names == (IF includeFirstName THEN << sanitizedFirstName >> ELSE << >>)
                    \o (IF includeLastName THEN << sanitizedLastName >> ELSE << >>)
        insertSuffixAtStart == 2 * d.start > RandSteps
        usernameParts ==
            (IF insertSuffixAtStart THEN << suffix >> \o names
             ELSE names \o << suffix >>) \o << randomSuffixNumber >>
        includeDot == 2 * d.dot > RandSteps
        joined == Join(usernameParts, IF includeDot THEN << "." >> ELSE << >>)
    IN IF sanitizedFirstName = << >> /\ sanitizedLastName = << >>
       THEN {suffix \o randomSuffixNumber}
       ELSE {RemoveInvalid(RemoveLeadingDots(padded)) : padded \in PadToTwelve(joined, d.char)}

\* The values of Math.random() in one call.
UsernameDraws ==
    [first : Rand, last : Rand, start : Rand, dot : Rand, number : Rand,
     length : Rand, char : Rand]

UserInit ==
    /\ uargs \in [firstName : NameStrings, lastName : NameStrings]
    /\ uout = NoUsername

InitUser == NavOff /\ TypeOff /\ DomOff /\ PureOff /\ ScrollOff /\ TwoOff /\ UserInit

\* One call of generateUsername.
CallGenerateUsername ==
    /\ uout = NoUsername
    /\ \E d \in UsernameDraws :
         uout' \in generateUsername(uargs.firstName, uargs.lastName, d)
    /\ UNCHANGED << uargs, nonUserVars >>

NextUser == CallGenerateUsername

SpecUser == InitUser /\ [][NextUser]_vars

\* ================================================================== claims
\* The call is inside handle*Navigation or has left it by a rejection.
InSession == pc \in {"click", "directWait", "poll", "logDone", "rejected", "failed"}

\* C1: in both provider modes the 'framenavigated' listener is attached before
\* element.click() is dispatched: whenever the click has been issued and the
\* session has not detached its listener by returning, the listener is on the
\* page, and every navigation event the page fires from then on invokes the
\* handler.
C1_ListenerBeforeClick ==
    /\ [](clicks > 0 /\ InSession => attached)
    /\ [][(clicks > 0 /\ InSession /\ navEvents' = navEvents + 1)
            => handlerCalls' = handlerCalls + 1]_vars

\* C1 witness: the click is still awaited and a navigation event has already
\* been delivered to the handler.
C1_Witness == pc = "click" /\ clicks = 1 /\ attached /\ handlerCalls > 0

\* The invocations of navigationHandler inside their guarded block.
GuardedWaits == {h \in Handlers : InGuardedWait(h)}

C3_OneWaitInFlight == WaitsInFlight <= 1

\* C4: if the page fires no navigation event, settlement terminates in both
\* provider modes: once the click has resolved, the direct wait ends, the
\* polling loop's condition comes true and the function returns (or rejects
\* with its completion logMessage).
C4_SettlesWithoutEvents ==
    (pc = "directWait") ~> (navEvents > 0 \/ pc \in {"done", "rejected", "failed"})

\* C4 witness: the function has returned after a timed-out direct wait, and the
\* page fired no navigation event.
C4_Witness == pc = "done" /\ navEvents = 0 /\ lastWait = "swallowed"

\* C5: in Hotmail mode every delivered navigation event, coalesced or not,
\* resets lastNavigationTime to its time, and the settlement promise resolves
\* only at a check that finds the flag false and more than SETTLE_TIMEOUT ms
\* gone since the last delivered event (or since entry).
C5_QuietWindow ==
    /\ [](isp = "hotmail" => timeSinceLastNavigation = timeSinceLastEvent)
    /\ [][(isp = "hotmail" /\ pc \in {"directWait", "poll"} /\ pc' = "logDone")
            => (~navigationResolving /\ timeSinceLastEvent > SETTLE_TIMEOUT)]_vars

\* C5 witness: Hotmail settlement has resolved after two navigation events, the
\* second of which was coalesced.
C5_Witness ==
    /\ isp = "hotmail"
    /\ pc = "logDone"
    /\ handlerCalls >= 2
    /\ frameLogs = 1

\* C6: in every provider mode a clickElement call whose element resolves has
\* dispatched exactly one click on it when it is over.
C6_ExactlyOneClick ==
    (element = "el" /\ pc \in {"returned", "done", "failed"}) => clicks = 1

\* C7: when settlement has returned normally the listener is detached and
\* exactly one 'Navigation Completed.' message has been logged; events fired
\* after the return invoke no handler of the session.
C7_DetachedWhenDone ==
    /\ [](pc = "done" => (~attached /\ completedLogs = 1))
    /\ [][pc = "done" => handlerCalls' = handlerCalls]_vars

\* C7 witness: settlement has returned and the page has fired an event that
\* reached no handler.
C7_Witness == pc = "done" /\ navEvents > handlerCalls

\* A step in which a page.waitForNavigation of the session ends by a rejection
\* (its timeout or another error).
DirectWaitRejects == pc = "directWait" /\ pc' # "directWait" /\ lastWait' = "swallowed"
HandlerWaitRejects ==
    /\ \E h \in Handlers : handlers[h].pc = "wait" /\ handlers'[h].pc = "none"
    /\ lastWait' = "swallowed"

\* C8: a rejection of a bounded waitForNavigation, the direct one or the
\* handler's, is swallowed: the error handler is not called, the settlement
\* function does not reject, and after the direct wait the polling loop runs.
C8_TimeoutSwallowed ==
    /\ [][DirectWaitRejects =>
            (errors' = errors /\ pc' \in {"poll", "logDone"})]_vars
    /\ [][HandlerWaitRejects =>
            (errors' = errors /\ pc' = pc /\ ~navigationResolving')]_vars

\* C8 witness: the direct wait was rejected and the polling loop is running.
C8_Witness == pc = "poll" /\ lastWait = "swallowed" /\ handlerCalls = 0 /\ errors = 0

\* The character and Enter actions among `as`, in order.
RECURSIVE KeyActions(_)
KeyActions(as) ==
    IF as = << >> THEN << >>
    ELSE IF Head(as).a \in {"type", "Enter"}
    THEN << Head(as) >> \o KeyActions(Tail(as))
    ELSE KeyActions(Tail(as))

\* One Enter per line break of `str` and one character action per other
\* character, in the order of the text.
ExpectedKeys(str) ==
    [k \in 1..Len(str) |->
        IF str[k] = "\n" THEN Act("Enter", "") ELSE Act("type", str[k])]

\* C9: typeText issues one Enter per line break of the text, each after the
\* characters of the segment before it and before those of the next, and none
\* for a text without a line break; also when segments repeat or are empty.
C9_EnterPerLineBreak ==
    tpc = "done" => KeyActions(acts) = ExpectedKeys(ToText(textArg))

\* C10: every character action is immediately preceded by a focus check of the
\* element; when the check finds the element is not the active one,
\* element.focus() is issued between the check and the character.
C10_CheckBeforeEachChar ==
    \A k \in 1..Len(acts) :
        /\ acts[k].a = "type" =>
              \/ (k >= 2 /\ acts[k - 1] = Act("check", "ok"))
              \/ (k >= 3 /\ acts[k - 1] = Act("focus", "")
                         /\ acts[k - 2] = Act("check", "lost"))
        /\ (acts[k] = Act("check", "lost") /\ k < Len(acts)) =>
              acts[k + 1] = Act("focus", "")

\* C10 witness: a whole text was typed, and for one of its characters the check
\* found the focus lost and the element was focused again.
C10_Witness ==
    /\ tpc = "done"
    /\ \E k \in 3..Len(acts) :
          /\ acts[k].a = "type"
          /\ acts[k - 1] = Act("focus", "")
          /\ acts[k - 2] = Act("check", "lost")

\* C11: when getElement gives typeText no element, no focus, character or
\* Enter action is issued, the call ends in its catch block (it resolves, it
\* does not reject), and the last handleError call carries the selector, the
\* kind and the text of the call.
C11_UnresolvedTypesNothing ==
    (tpc # "idle" /\ telement # "el") =>
        /\ tpc = "failed"
        /\ acts = << >>
        /\ terrors >= 1
        /\ terrors = Len(diags)
        /\ diags[Len(diags)] = TextDiag(ttype, textArg)

\* C11 witness: a non-empty text was to be typed into an element the page does
\* not have; the call is over and the handler was called once.
C11_Witness ==
    /\ tpc = "failed"
    /\ telement = "null"
    /\ textArg.kind = "string" /\ textArg.s # << >>
    /\ acts = << >>
    /\ terrors = 1

\* C14: no exported function rejects to its caller: whatever the page
\* primitives do, the promise of handleHotmailNavigation / handleGmailNavigation
\* is never rejected (the error goes to the handler inside the function).
C14_NeverRejects == pc # "rejected"

\* The call's selector is well-formed for its kind and no element of the page
\* matches it.
MatchesNone ==
    LET r == PageQuery(page, dcall.type, dcall.selector)
    IN ~r.throws /\ r.nodes = << >>

\* C12: for each of the six supported kinds, getElement on a selector that
\* matches no element returns null, and handleError is not called.
C12_ZeroMatchesGiveNull ==
    (dcall.fn = "getElement" /\ dcall.type \in SupportedTypes /\ MatchesNone) =>
        /\ dout.ret = "null"
        /\ dout.error = "none"
        /\ dout.diags = << >>

C18_XPathDropdownSelected ==
    (dcall.fn = "selectOption" /\ dcall.type = "xpath" /\ dout.xnode # 0) =>
        dout.node = dout.xnode

\* C19: on every page, getElement with kind 'class' and selector foo gives the
\* same element, or the same not-found result, as getElement with kind
\* 'selector' and selector '.foo'.
C19_ClassIsDotSelector ==
    (dcall.fn = "getElement" /\ dcall.type = "class") =>
        LET o == getElementOn(page, "selector", << "." >> \o dcall.selector)
        IN dout.ret = o.ret /\ dout.node = o.node

\* C19 witness: class a is on the second element only, and kind 'class' with
\* selector a gave that element.
C19_Witness ==
    /\ dcall = Call("getElement", "class", << "a" >>)
    /\ Len(page) = 2 /\ page[1].class = "" /\ page[1].id = "a"
    /\ dout.ret = "el" /\ dout.node = 2

\* An element matching the call's descriptor is on the page.
DescriptorValid ==
    IF dcall.type = "selector" THEN CssValid(dcall.selector)
    ELSE XPathValid(dcall.selector)
DescriptorExists ==
    \E k \in 1..Len(page) :
        IF dcall.type = "selector" THEN CssMatches(dcall.selector, page[k])
        ELSE XPathMatches(dcall.selector, page[k])

C15_ClickCountInRange ==
    /\ pfn = "clearInput" => pout \in 3..6
    /\ pfn = "randomNumber" =>
          LET lo == IF pargs[1] < pargs[2] THEN pargs[1] ELSE pargs[2]
              hi == IF pargs[1] < pargs[2] THEN pargs[2] ELSE pargs[1]
          IN /\ pout \in lo..hi
             /\ {randomNumber(pargs[1], pargs[2], r) : r \in Rand}
                    = {randomNumber(pargs[2], pargs[1], r) : r \in Rand}

\* C15 witness: the largest value of the random source gave clearInput six
\* clicks.
C15_Witness == pfn = "clearInput" /\ rnd = RandSteps - 1 /\ pout = 6

\* C17: randomScroll and scrollToElement compute the same end time and give
\* the page the same arguments when the time bounds and the speed bounds are
\* passed the other way round, and the end time is between now + the smaller
\* and now + the larger time bound, for every value of Math.random().
C17_SwappedBoundsSameResult ==
    LET lo == IF pargs[1] < pargs[2] THEN pargs[1] ELSE pargs[2]
        hi == IF pargs[1] < pargs[2] THEN pargs[2] ELSE pargs[1]
        within == RandSteps * lo <= pout.endTime /\ pout.endTime <= RandSteps * hi
    IN /\ pfn = "randomScroll" =>
            /\ within
            /\ pout = randomScroll(pargs[2], pargs[1], pargs[4], pargs[3], rnd)
       /\ pfn = "scrollToElement" =>
            /\ within
            /\ pout = scrollToElement(pargs[2], pargs[1], pargs[4], pargs[3],
                                      pargs[5], TRUE, rnd, 0)
       /\ pfn = "scrollToElementFallback" =>
            /\ within
            /\ \E r2 \in Rand :
                  pout = scrollToElement(pargs[2], pargs[1], pargs[4], pargs[3],
                                         pargs[5], FALSE, rnd, r2)

\* C17 witness: randomScroll called with the time bounds and the speed bounds
\* the wrong way round, and a random value that puts the end time strictly
\* between the bounds.
C17_Witness ==
    /\ pfn = "randomScroll"
    /\ pargs[1] < pargs[2] /\ pargs[3] < pargs[4]
    /\ rnd > 0
    /\ pout.endTime > RandSteps * pargs[1]
    /\ pout.inPage.minScrollingSpeed = pargs[3]

\* The three things clearInput does to the page, in the order of the code.
ClearActs == << Act("click", ""), Act("wait", ""), Act("Backspace", "") >>

\* C16: a clearInput call whose element resolves performs one multi-click, one
\* randomized wait and one Backspace press, in this order and each once: what
\* it has done so far is a prefix of that list, and all of it when the call
\* returns; when the element does not resolve none of the three is performed
\* and handleError is called.
C16_ClickWaitBackspace ==
    /\ \E n \in 0..3 : acts = SubSeq(ClearActs, 1, n)
    /\ tpc = "done" => (telement = "el" /\ acts = ClearActs /\ terrors = 0)
    /\ (telement = "el" /\ tpc = "failed") => acts # << >>
    /\ (tpc # "idle" /\ telement # "el") =>
          (tpc = "failed" /\ acts = << >> /\ terrors >= 1)

\* C16 witness: the call has returned after the three actions, with a click
\* count of four.
C16_Witness == tpc = "done" /\ acts = ClearActs /\ clickCount = 4

\* C21: in both provider modes, whenever navigationResolving is true it
\* becomes false again, whether the guarded wait reaches network idle, times
\* out or is rejected.
C21_GuardReleased == navigationResolving ~> ~navigationResolving

\* C21 witness: the click is still awaited, a handler's guarded wait has ended
\* by its timeout or a rejection, and the flag is false again.
C21_Witness ==
    /\ pc = "click"
    /\ handlerCalls >= 1
    /\ lastWait = "swallowed"
    /\ ~navigationResolving
    /\ \A h \in Handlers : handlers[h].pc = "none"

\* A step that is a tick of Gmail's recheck timer.
GmailTick ==
    /\ isp = "gmail"
    /\ pc = "poll"
    /\ recheckLeft = 0
    /\ (pc' # pc \/ recheckLeft' # recheckLeft)

\* C22: in Gmail mode the timer is started with RECHECK_INTERVAL when the
\* post-click wait ends; a tick resolves the settlement promise exactly when
\* navigationResolving is false, and otherwise leaves the next tick one
\* RECHECK_INTERVAL away; the promise resolves at a tick only, whatever the
\* navigation events did before.
C22_GmailFlagOnly ==
    /\ [][(isp = "gmail" /\ pc = "directWait" /\ pc' # "directWait")
            => (pc' = "poll" /\ recheckLeft' = RECHECK_INTERVAL)]_vars
    /\ [][GmailTick =>
            IF navigationResolving
            THEN pc' = "poll" /\ recheckLeft' = RECHECK_INTERVAL
            ELSE pc' = "logDone"]_vars
    /\ [][(isp = "gmail" /\ pc # "logDone" /\ pc' = "logDone") => GmailTick]_vars

\* C22 witness: Gmail's promise has resolved while an invocation of the handler
\* that a navigation event started is still at its first await.
C22_Witness ==
    /\ isp = "gmail"
    /\ pc = "logDone"
    /\ \E h \in Handlers : handlers[h].pc = "log"
    /\ completedLogs = 0

\* The characters of the character actions among `as`, in order.
RECURSIVE TypedChars(_)
TypedChars(as) ==
    IF as = << >> THEN << >>
    ELSE IF Head(as).a = "type"
    THEN << Head(as).c >> \o TypedChars(Tail(as))
    ELSE TypedChars(Tail(as))

\* The characters typeText is to type: those of a string other than its line
\* breaks; none for null, undefined and the number 0.
CharsToType ==
    IF textArg.kind = "string"
    THEN SelectSeq(textArg.s, LAMBDA c : c # "\n")
    ELSE << >>

\* C23: the character actions of typeText are, in order, the characters of the
\* text without its line breaks, nothing added and nothing dropped: a prefix of
\* them while the call runs, all of them when it returns; null, undefined, ''
\* and the number 0 give no character action.
C23_CharsInOrder ==
    /\ \E n \in 0..Len(CharsToType) : TypedChars(acts) = SubSeq(CharsToType, 1, n)
    /\ tpc = "done" => TypedChars(acts) = CharsToType

\* C23 witness: a text with a line break in the middle has been typed through.
C23_Witness ==
    /\ tpc = "done"
    /\ textArg.kind = "string"
    /\ Len(textArg.s) = 3 /\ textArg.s[2] = "\n"
    /\ Len(TypedChars(acts)) = 2

\* C24: inside the page scrollToElement jumps to (target top - offset) with
\* the caller's offset, and every delay between two steps lies between the
\* smaller and the larger of the caller's two speed bounds.
C24_InPageArguments ==
    pfn = "scrollToElement" =>
        LET lo == IF pargs[3] < pargs[4] THEN pargs[3] ELSE pargs[4]
            hi == IF pargs[3] < pargs[4] THEN pargs[4] ELSE pargs[3]
        IN /\ \A top \in ArgRange :
                 InitialScrollOffset(top, pout.inPage) = top - pargs[5]
           /\ \A r \in Rand :
                 /\ RandSteps * lo <= StepDelay(pout.inPage, r)
                 /\ StepDelay(pout.inPage, r) <= RandSteps * hi

\* C25: randomScroll's in-page loop ends once the clock has reached endTime,
\* and not before; each step asks for a scroll of 300 to 550 pixels and moves
\* by no more than that, never leaves the position negative, and waits a
\* delay between the normalised speeds. The same holds for scrollToElement's
\* fallback call randomScroll(10000, 6000, 2000, null), whose speeds are
\* [0, 2000].
Magnitude(n) == IF n < 0 THEN 0 - n ELSE n
ScrollSpeeds == Normalise(scall.minSpeed, scall.maxSpeed)
LoopStep == spc' = "delay" /\ (spc # "delay" \/ sleft' # sleft)
C25_StepInRange ==
    spc \in {"delay", "randomWait", "done", "failed"} /\ sstep # NoStep =>
        /\ Magnitude(sstep.amount) \in 300..550
        /\ sstep.delay >= RandSteps * ScrollSpeeds.min
        /\ sstep.delay <= RandSteps * ScrollSpeeds.max
C25_LoopEndsAtEndTime ==
    /\ [](C25_StepInRange /\ scrollY >= 0)
    /\ [][/\ LoopStep => sleft' > 0
          /\ LoopStep => Magnitude(scrollY' - scrollY) <= Magnitude(sstep'.amount)
          /\ spc' = "randomWait" /\ spc' # spc => sleft' = 0]_vars
    /\ (spc = "delay") ~> (spc \in {"randomWait", "done", "failed"})
C25_Witness ==
    /\ scall = FallbackCall
    /\ spc = "randomWait"
    /\ sstep.amount < 0
    /\ scrollY = 0
    /\ sstep.delay > 0
\* C25 as stated: the distance moved in a step is between 300 and 550 pixels.
C25_DistanceMoved ==
    /\ [](C25_StepInRange /\ scrollY >= 0)
    /\ [][/\ LoopStep => sleft' > 0
          /\ LoopStep => Magnitude(scrollY' - scrollY) \in 300..550
          /\ spc' = "randomWait" /\ spc' # spc => sleft' = 0]_vars
    /\ (spc = "delay") ~> (spc \in {"randomWait", "done", "failed"})

\* C26: consecutive navigation events of the same frame log 'Frame
\* navigated' once: of two invocations of the handler that follow each other,
\* for the same frame, the second does not call logMessage while the first is
\* still inside its own logMessage call.
C26_SameFrameLogsOnce ==
    \A h \in Handlers :
        h + 1 \in Handlers =>
            ~ /\ handlers[h].pc = "log"
              /\ handlers[h + 1].pc = "log"
              /\ handlers[h].frame = handlers[h + 1].frame

\* C27: once handle*Navigation has exited, by normal return or by rejection,
\* its 'framenavigated' listener is no longer attached to the page.
C27_DetachedAfterExit == pc \in {"done", "rejected", "failed"} => ~attached

\* C28: at the moment the settlement promise resolves no invocation of the
\* session's navigation handler is in progress, neither suspended in its
\* logMessage call nor inside the guarded wait.
HandlerInProgress(h) == handlers[h].pc # "none"
C28_NoHandlerAtSettlement ==
    [][pc # "logDone" /\ pc' = "logDone" =>
          \A h \in Handlers : ~HandlerInProgress(h)]_vars

\* C29: a failing call of typeText invokes the shared error handler exactly
\* once, whatever the cause of the failure.
C29_OneErrorPerFailure == tpc = "failed" => terrors = 1

\* C30: two navigation sessions on one page are independent. A step of one
\* session (of its call or of one of its handler invocations) leaves the
\* other session's flag, timestamp, last-logged frame and listener as they
\* were; a navigation event calls the handler of every attached session and
\* of no other; a session that completes detaches its own listener only.
Private(x) == [x EXCEPT !.since = 0]
C30_SessionsIndependent ==
    /\ [][twoEvents' = twoEvents =>
            \A s \in TwoSessions :
                Private(sess'[s]) # Private(sess[s]) =>
                    \A t \in TwoSessions \ {s} :
                        /\ sess'[t] = sess[t]
                        /\ (t \in listeners') = (t \in listeners)]_vars
    /\ [][twoEvents' # twoEvents =>
            \A s \in TwoSessions :
                sess'[s].calls = sess[s].calls + (IF s \in listeners THEN 1 ELSE 0)]_vars
    /\ [][\A s \in TwoSessions :
            sess[s].pc # "done" /\ sess'[s].pc = "done" =>
                listeners' = listeners \ {s}]_vars
\* C30 witness: session 1 has completed and detached its listener while
\* session 2, whose handler was called for the same events, is still inside
\* its guarded wait with its listener attached.
C30_Witness ==
    /\ tisp # "none"
    /\ sess[1].pc = "done"
    /\ sess[1].calls > 0
    /\ sess[2].calls > 0
    /\ sess[2].navigationResolving
    /\ sess[2].lastLoggedFrameID # sess[1].lastLoggedFrameID
    /\ listeners = {2}

\* C31: for every firstName and lastName of which at least one is non-empty
\* after trimming, generateUsername returns a string of characters of
\* [a-z0-9.] only, that does not start with '.', of at least 12 characters.
NameGiven == Trim(uargs.firstName) # << >> \/ Trim(uargs.lastName) # << >>
C31_ValidUsername ==
    uout # NoUsername /\ NameGiven =>
        /\ \A k \in 1..Len(uout) : GmailChar(uout[k])
        /\ uout = << >> \/ Head(uout) # "."
        /\ Len(uout) >= 12
====
